---- MODULE Spec2Model ----
(***************************************************************************)
(* A model of cooperneil/client:                                           *)
(*   pkg/functions/deploy.go  RunDeploy, the step-plan interpreter         *)
(*   test/e2e/common.go       the process runner, the namespace pollers    *)
(*                            and the shared counters of the e2e tests     *)
(* Strings are sequences of one-character strings; a template string is a  *)
(* sequence of tokens (literals, key references, a malformed action).      *)
(***************************************************************************)
EXTENDS Integers, Sequences, FiniteSets, TLC

VARIABLES
    \* ---- RunDeploy (pkg/functions/deploy.go) ----
    plan,        \* deployPlan.Spec.Steps
    dpc,         \* position of RunDeploy: "idle", "loop", "done"
    idx,         \* index of the step the loop is at (1-based)
    events,      \* everything RunDeploy did, in order: sink writes and side effects
    dirs,        \* directories that exist on the filesystem
    files,       \* files rendered on the filesystem
    ret,         \* value returned by RunDeploy
    failures,    \* history: every failing operation, in order
    \* ---- the process runner and the namespace pollers (test/e2e/common.go) ----
    op,          \* the function called: "none", "runCLIWithOpts", "checkNamespace",
                 \* "WaitForNamespaceCreated", "WaitForNamespaceDeleted", "createNamespace"
    ppc,         \* its position: "idle", "loop", "checked", "returned",
                 \* "exited" (Logger.Fatalf), "failed" (t.Fatalf)
    created,     \* checkNamespace's parameter created
    maxRetries,  \* the parameter maxRetries
    allowError,  \* opts.AllowError of a direct runCLIWithOpts call
    retries,     \* the local retries
    attempts,    \* child processes run so far by the call
    sleeps,      \* time.Sleep calls made so far by the call
    script,      \* what the n-th child process of the call does
    result,      \* checkNamespace's return value
    out,         \* the string returned
    err,         \* the error returned
    \* ---- the shared counters (test/e2e/common.go) ----
    namespaceCount,  \* the package variable namespaceCount
    serviceCount,    \* the package variable serviceCount
    mutex,           \* var m sync.Mutex: the caller holding it, 0 when free
    cpc,             \* each caller's position: "idle", "lock", "read", "incr", "ret"
    which,           \* the function each caller is in: "ns" or "svc"
    current,         \* each caller's local current
    nsReturned,      \* what getNamespaceCountAndIncrement has returned, in order
    svcReturned,     \* what getServiceNameAndIncrement has returned, in order
    initCount,       \* the counters' values at process start
    \* ---- one runCLIWithOpts call and its cancellation listener ----
    rpc,         \* position of the runner: "idle", "created" (line 205 done, listener
                 \* launched), "started" (inside cmd.Run, child spawned), "ran"
                 \* (cmd.Run returned), "returned", "exited" (Logger.Fatalf)
    cancelCh,    \* opts.CancelCh: "nil", "open", "fired"
    lpc,         \* the listener goroutine: "none", "waiting", "done", "crashed"
    cmdProcess,  \* cmd.Process: "nil" or "set"
    reaped,      \* cmd.Wait has collected the child (the handle is done)
    childProc,   \* the child process: "none", "running", "exited"
    behaviour,   \* what the child does when left alone
    exitStatus,  \* how the child ended
    runErr,      \* what cmd.Run() returned
    rallow,      \* opts.AllowError
    writer,      \* opts.StdoutWriter != nil
    signals,     \* history: the signals sent to the child
    firedAt,     \* history: the child's state when the channel fired
    rout,        \* the string returned
    rerr,        \* the error returned
    \* ---- one e2eTest (test/e2e/common.go) ----
    tpc,                     \* the test process: "running" or "exited" (Logger.Fatalf)
    tfailed,                 \* t.Fatalf has been called: the test is marked failed
    Namespace,               \* test.env.Namespace
    createNamespaceOnSetup,  \* the field createNamespaceOnSetup
    namespaceCreated,        \* the field namespaceCreated
    hist                     \* history: the calls made on the e2eTest, in order

deployVars == <<plan, dpc, idx, events, dirs, files, ret, failures>>

pollVars == <<op, ppc, created, maxRetries, allowError, retries, attempts, sleeps,
              script, result, out, err>>

counterVars == <<namespaceCount, serviceCount, mutex, cpc, which, current,
                 nsReturned, svcReturned, initCount>>

cancelVars == <<rpc, cancelCh, lpc, cmdProcess, reaped, childProc, behaviour, exitStatus,
                runErr, rallow, writer, signals, firedAt, rout, rerr>>

lifeVars == <<tpc, tfailed, Namespace, createNamespaceOnSetup, namespaceCreated, hist>>

vars == <<deployVars, pollVars, counterVars, cancelVars, lifeVars>>

-----------------------------------------------------------------------------
(* Bounds of the model *)

\* longest plan handed to RunDeploy
MaxSteps == 3

\* goroutines calling the counter functions
NumCallers == 3

\* calls of the counter functions made in all
MaxCalls == 4

\* calls made on one e2eTest
MaxOps == 4

-----------------------------------------------------------------------------
(* Strings *)

\* the front of s up to and excluding position n
Take(s, n) == SubSeq(s, 1, n - 1)

\* the rest of s from position n on
Drop(s, n) == SubSeq(s, n, Len(s))

\* position of the first sep in s, 0 when there is none
RECURSIVE IndexFrom(_, _, _)
IndexFrom(s, sep, i) ==
    IF i > Len(s) THEN 0
    ELSE IF s[i] = sep THEN i
    ELSE IndexFrom(s, sep, i + 1)

\* strings.Split(s, sep) for a one-character sep: the pieces between the
\* separators, empty pieces kept; an s without sep is the only piece
RECURSIVE Split(_, _)
Split(s, sep) ==
    LET i == IndexFrom(s, sep, 1)
    IN  IF i = 0 THEN <<s>>
        ELSE <<Take(s, i)>> \o Split(Drop(s, i + 1), sep)

-----------------------------------------------------------------------------
(* The template engine (knative.dev/client/pkg/functions/template) *)

\* template tokens: a reference to context key k, and a malformed action
RefK == "{{.k}}"
Bad  == "{{"

IsLiteral(tok) == tok \notin {RefK, Bad}

\* the key a reference token names
KeyOf(tok) == "k"

\* whether token tok renders against data
Renders(tok, data) ==
    \/ IsLiteral(tok)
    \/ tok = RefK /\ KeyOf(tok) \in DOMAIN data

\* what token tok renders to
RenderTok(tok, data) == IF IsLiteral(tok) THEN <<tok>> ELSE data[KeyOf(tok)]

RECURSIVE RenderPrefix(_, _)
\* the text rendered before the first token that does not render
RenderPrefix(t, data) ==
    IF t = <<>> \/ ~Renders(Head(t), data) THEN <<>>
    ELSE RenderTok(Head(t), data) \o RenderPrefix(Tail(t), data)

\* InterpretString(t, data): the interpolated string, or an error when the
\* template is malformed or names a key the context lacks.  What string comes
\* back beside an error is not fixed: nothing, or the text rendered so far.
InterpretString(t, data) ==
    IF \A i \in 1..Len(t) : Renders(t[i], data)
    THEN {[str |-> RenderPrefix(t, data), err |-> "none"]}
    ELSE {[str |-> s, err |-> "template"] : s \in {<<>>, RenderPrefix(t, data)}}

\* RenderTemplate(sourceFile, outFile, data): whether the source renders is
\* the environment's; a failed rendering leaves no file
RenderTemplate(ok) == IF ok THEN "none" ELSE "render"

-----------------------------------------------------------------------------
(* RunDeploy *)

NoErr == [kind |-> "none", step |-> 0, name |-> <<>>]
Err(k, i, n) == [kind |-> k, step |-> i, name |-> n]
Pending == [kind |-> "pending", step |-> 0, name |-> <<>>]

Event(t, i, a) == [type |-> t, step |-> i, arg |-> a]

\* data := make(map[string]interface{})        (never written afterwards)
EmptyData == << >>

StepName(i) == <<"s", i>>

\* the payloads a step of the plan file may carry
Payloads ==
    { [Mkdir |-> m, Exec |-> e, Source |-> s, Destination |-> d] :
        m \in {<<>>}, e \in {<<>>}, s \in {<<>>}, d \in {<<>>} }
    \cup { [Mkdir |-> m, Exec |-> <<>>, Source |-> <<>>, Destination |-> <<>>] :
        m \in {<<"d">>, <<"d", RefK>>, <<Bad>>} }
    \cup { [Mkdir |-> <<>>, Exec |-> e, Source |-> <<>>, Destination |-> <<>>] :
        e \in {<<"a">>, <<"a", " ", "b">>, <<"a", " ", " ", "b">>, <<" ", "a">>,
               <<"a", "\t", "b">>} }
    \cup { [Mkdir |-> <<>>, Exec |-> <<>>, Source |-> <<"t">>, Destination |-> d] :
        d \in {<<"f">>, <<"f", RefK>>} }
    \cup { [Mkdir |-> <<"e">>, Exec |-> <<"a">>, Source |-> <<"t">>, Destination |-> <<"g">>] }

StepOf(i, p) ==
    [Name |-> StepName(i), Mkdir |-> p.Mkdir, Exec |-> p.Exec,
     Source |-> p.Source, Destination |-> p.Destination]

Plans ==
    UNION { { [i \in 1..n |-> StepOf(i, f[i])] : f \in [1..n -> Payloads] } : n \in 0..MaxSteps }

\* os.MkdirAll(path): an empty path always fails; otherwise the filesystem decides
MkdirAllOutcomes(path) == IF path = <<>> THEN {FALSE} ELSE BOOLEAN

\* exec.LookPath(file): an empty name is never found; otherwise the search path decides
LookPathOutcomes(file) == IF file = <<>> THEN {FALSE} ELSE BOOLEAN

\* the chain testing step.Exec first
BranchExecFirst(step) ==
    IF step.Exec # <<>> THEN "exec"
    ELSE IF step.Mkdir # <<>> THEN "mkdir"
    ELSE IF step.Source # <<>> THEN "file"
    ELSE "none"

\* the chain without its final else: a step with no payload falls into the
\* file branch
BranchNoElse(step) ==
    IF step.Mkdir # <<>> THEN "mkdir"
    ELSE IF step.Exec # <<>> THEN "exec"
    ELSE "file"

\* which branch of the if/else-if chain a step takes
Branch(step) ==
    IF step.Mkdir # <<>> THEN "mkdir"
    ELSE IF step.Exec # <<>> THEN "exec"
    ELSE IF step.Source # <<>> THEN "file"
    ELSE "none"

\* fmt.Fprintf(w, " ♫ %s\n", step.Name)
Marker(i) == Event("marker", i, plan[i].Name)

\* the marker written once the step has run
MarkerLast(i, effects) == effects \o <<Marker(i)>>

\* lines 40-78: one pass of the loop writes the step's marker, then does what
\* the step's branch does
StepEvents(i, effects) == <<Marker(i)>> \o effects

\* return err out of the loop
Abort(e) ==
    /\ ret' = e
    /\ dpc' = "done"
    /\ idx' = idx

\* the loop goes on to the next step
Continue ==
    /\ ret' = ret
    /\ dpc' = "loop"
    /\ idx' = idx + 1

\* lines 28-38: load the plan, write the banner
RunDeployStart ==
    /\ dpc = "idle"
    /\ \E p \in Plans, loaded \in BOOLEAN :
        /\ plan' = p
        /\ IF loaded
           THEN /\ events' = <<Event("banner", 0, <<"sdk">>)>>
                /\ dpc' = "loop"
                /\ ret' = Pending
                /\ failures' = <<>>
           ELSE /\ events' = <<>>
                /\ dpc' = "done"
                /\ ret' = Err("load", 0, <<>>)
                /\ failures' = <<>>
    /\ idx' = 1
    /\ UNCHANGED <<dirs, files>>
    /\ UNCHANGED <<pollVars, counterVars, cancelVars, lifeVars>>

\* lines 41-46: the error of InterpretString is assigned and then overwritten
\* by the result of os.MkdirAll before anything reads it (lines 42-43), so
\* MkdirAll runs on whatever string came back
StepMkdir ==
    /\ dpc = "loop" /\ idx <= Len(plan)
    /\ Branch(plan[idx]) = "mkdir"
    /\ \E r \in InterpretString(plan[idx].Mkdir, EmptyData) :
        LET tfail == IF r.err # "none" THEN <<Err(r.err, idx, <<>>)>> ELSE <<>>
        IN  \E ok \in MkdirAllOutcomes(r.str) :
             IF ok
             THEN /\ events' = events \o StepEvents(idx, <<Event("mkdir", idx, r.str)>>)
                  /\ dirs' = dirs \cup {r.str}
                  /\ failures' = failures \o tfail
                  /\ Continue
                  /\ UNCHANGED files
             ELSE /\ events' = events \o StepEvents(idx, <<>>)
                  /\ failures' = failures \o tfail \o <<Err("mkdir", idx, <<>>)>>
                  /\ Abort(Err("mkdir", idx, <<>>))
                  /\ UNCHANGED <<dirs, files>>
    /\ UNCHANGED plan
    /\ UNCHANGED <<pollVars, counterVars, cancelVars, lifeVars>>

\* lines 47-65
StepExec ==
    /\ dpc = "loop" /\ idx <= Len(plan)
    /\ Branch(plan[idx]) = "exec"
    /\ LET parts == Split(plan[idx].Exec, " ")
           args  == Tail(parts)
       IN  \E found \in LookPathOutcomes(parts[1]), ran \in BOOLEAN :
            IF ~found
            THEN /\ events' = events \o StepEvents(idx, <<>>)
                 /\ failures' = Append(failures, Err("lookpath", idx, parts[1]))
                 /\ Abort(Err("lookpath", idx, parts[1]))
            ELSE /\ events' = events \o StepEvents(idx, <<Event("spawn", idx, parts)>>)
                 /\ IF ran
                    THEN /\ failures' = failures
                         /\ Continue
                    ELSE /\ failures' = Append(failures, Err("exit", idx, <<>>))
                         /\ Abort(Err("exit", idx, <<>>))
    /\ UNCHANGED <<plan, dirs, files>>
    /\ UNCHANGED <<pollVars, counterVars, cancelVars, lifeVars>>

\* lines 66-75
StepFile ==
    /\ dpc = "loop" /\ idx <= Len(plan)
    /\ Branch(plan[idx]) = "file"
    /\ \E r \in InterpretString(plan[idx].Destination, EmptyData), rendered \in BOOLEAN :
        IF r.err # "none"
        THEN /\ events' = events \o StepEvents(idx, <<>>)
             /\ failures' = Append(failures, Err(r.err, idx, <<>>))
             /\ Abort(Err(r.err, idx, <<>>))
             /\ UNCHANGED files
        ELSE IF RenderTemplate(rendered) # "none"
        THEN /\ events' = events \o StepEvents(idx, <<>>)
             /\ failures' = Append(failures, Err(RenderTemplate(rendered), idx, <<>>))
             /\ Abort(Err(RenderTemplate(rendered), idx, <<>>))
             /\ UNCHANGED files
        ELSE /\ events' = events \o StepEvents(idx, <<Event("render", idx, r.str)>>)
             /\ files' = files \cup {r.str}
             /\ failures' = failures
             /\ Continue
    /\ UNCHANGED <<plan, dirs>>
    /\ UNCHANGED <<pollVars, counterVars, cancelVars, lifeVars>>

\* lines 76-78
StepInvalid ==
    /\ dpc = "loop" /\ idx <= Len(plan)
    /\ Branch(plan[idx]) = "none"
    /\ events' = events \o StepEvents(idx, <<>>)
    /\ failures' = Append(failures, Err("config", idx, plan[idx].Name))
    /\ Abort(Err("config", idx, plan[idx].Name))
    /\ UNCHANGED <<plan, dirs, files>>
    /\ UNCHANGED <<pollVars, counterVars, cancelVars, lifeVars>>

\* line 81
RunDeployReturn ==
    /\ dpc = "loop" /\ idx > Len(plan)
    /\ ret' = NoErr
    /\ dpc' = "done"
    /\ UNCHANGED <<plan, idx, events, dirs, files, failures>>
    /\ UNCHANGED <<pollVars, counterVars, cancelVars, lifeVars>>

DeployInit ==
    /\ plan = <<>>
    /\ dpc = "idle"
    /\ idx = 1
    /\ events = <<>>
    /\ dirs = {}
    /\ files = {}
    /\ ret = Pending
    /\ failures = <<>>

-----------------------------------------------------------------------------
(* The process runner: runCLIWithOpts *)

\* const MaxRetries int = 10
MaxRetries == 10

\* the namespace the calls are about, and names that are not it
Target == <<"n", "1">>
Longer == <<"n", "1", "0">>
Other  == <<"k">>

\* one line of a listing
Line(name) == name \o <<"\n">>

\* strings.Contains(s, sub)
Contains(s, sub) ==
    \E i \in 0..(Len(s) - Len(sub)) : SubSeq(s, i + 1, i + Len(sub)) = sub

NilError == [nil |-> TRUE, stderr |-> <<>>, cause |-> "none"]

\* fmt.Errorf("Execution error: stderr: '%s' error: '%s'", stderr.String(), err)
ExecutionError(stderr, cause) == [nil |-> FALSE, stderr |-> stderr, cause |-> cause]

\* a child process: how cmd.Run() ends ("exit0", "nonzero", "spawnfail") and
\* what the child wrote
Child(o, so, se) == [outcome |-> o, stdout |-> so, stderr |-> se]

\* the runner that is fatal whatever opts.AllowError says
RunCLIAlwaysFatal(child, allow) ==
    LET e == IF child.outcome # "exit0"
             THEN ExecutionError(child.stderr, child.outcome)
             ELSE NilError
    IN  [fatal |-> ~e.nil, out |-> child.stdout, err |-> e]

\* lines 225-234: the error built from cmd.Run()'s, Logger.Fatalf unless
\* opts.AllowError, and the captured standard output
RunCLIWithOpts(child, allow) ==
    LET e == IF child.outcome # "exit0"
             THEN ExecutionError(child.stderr, child.outcome)
             ELSE NilError
    IN  [fatal |-> ~e.nil /\ ~allow, out |-> child.stdout, err |-> e]

\* kubectl.RunWithOpts(args, opts): runs kubectl through runCLIWithOpts
KubectlRunWithOpts(child, allow) == RunCLIWithOpts(child, allow)

\* Logger.Fatalf: the process exits
Fatalf == "exited"

\* longest run of child processes a call can make
ScriptLen == MaxRetries + 2

\* the attempt budgets the calls are made with
Budgets == {-1, 0, 1, 2, MaxRetries, MaxRetries + 1}

Listings == {<<>>, Line(Other), Line(Target), Line(Longer)}

Failures == {"nonzero", "spawnfail"}

\* listings: `before` up to probe flipAt, `after` from it on; the probe failAt
\* (if any) fails
ListScript(before, after, flipAt, failAt, kind) ==
    [n \in 1..ScriptLen |->
        IF n = failAt THEN Child(kind, <<>>, <<"e", n>>)
        ELSE Child("exit0", IF n < flipAt THEN before ELSE after, <<>>)]

ListScripts ==
    { ListScript(b, a, f, x, k) :
        b \in Listings, a \in Listings, f \in 1..(MaxRetries + 2),
        x \in {0, 1, 2, MaxRetries}, k \in Failures }

\* create commands: failing up to attempt okAt, which succeeds (0: none does)
CreateScript(okAt, kind) ==
    [n \in 1..ScriptLen |->
        IF okAt # 0 /\ n >= okAt THEN Child("exit0", <<"c", n>>, <<>>)
        ELSE Child(kind, <<>>, <<"e", n>>)]

CreateScripts == { CreateScript(j, k) : j \in 0..ScriptLen, k \in Failures }

Children ==
    { Child("exit0", <<"o">>, <<>>), Child("exit0", <<"o">>, <<"w">>) }
    \cup { Child(k, so, <<"e">>) : k \in Failures, so \in {<<>>, <<"o">>} }

Call(name, c, m, a, sc) ==
    /\ op' = name
    /\ ppc' = "loop"
    /\ created' = c
    /\ maxRetries' = m
    /\ allowError' = a
    /\ script' = sc
    /\ retries' = 0
    /\ attempts' = 0
    /\ sleeps' = 0
    /\ UNCHANGED <<result, out, err>>
    /\ UNCHANGED <<deployVars, counterVars, cancelVars, lifeVars>>

\* a call of runCLIWithOpts(cli, args, opts, logger), lines 199-235
RunCLI ==
    /\ ppc = "idle"
    /\ \E child \in Children, allow \in BOOLEAN :
        LET r == RunCLIWithOpts(child, allow)
        IN  /\ op' = "runCLIWithOpts"
            /\ script' = <<child>>
            /\ allowError' = allow
            /\ attempts' = 1
            /\ IF r.fatal
               THEN /\ ppc' = Fatalf
                    /\ UNCHANGED <<out, err>>
               ELSE /\ ppc' = "returned"
                    /\ out' = r.out
                    /\ err' = r.err
    /\ UNCHANGED <<created, maxRetries, retries, sleeps, result>>
    /\ UNCHANGED <<deployVars, counterVars, cancelVars, lifeVars>>

-----------------------------------------------------------------------------
(* checkNamespace and its callers *)

CheckOps == {"checkNamespace", "WaitForNamespaceCreated", "WaitForNamespaceDeleted"}

\* checkNamespace(t, namespace, created, maxRetries, logger) called directly
CallCheckNamespace ==
    /\ ppc = "idle"
    /\ \E c \in BOOLEAN, m \in Budgets, sc \in ListScripts :
        Call("checkNamespace", c, m, FALSE, sc)

\* lines 128-130 and 137-139: checkNamespace(t, namespace, false|true, MaxRetries, logger)
CallWaitForNamespace ==
    /\ ppc = "idle"
    /\ \E c \in BOOLEAN, sc \in ListScripts :
        Call(IF c THEN "WaitForNamespaceCreated" ELSE "WaitForNamespaceDeleted",
             c, MaxRetries, FALSE, sc)

\* line 153: for retries < MaxRetries
LoopGuard(r, m) == r < MaxRetries

\* lines 157-164: the namespace is gone, or is there
Satisfied(c, output, namespace) ==
    \/ ~c /\ ~Contains(output, namespace)
    \/ c /\ Contains(output, namespace)

\* checkNamespace returns b to its caller
CheckReturns(b) ==
    /\ result' = b
    /\ ppc' = IF op = "checkNamespace" THEN "returned" ELSE "checked"

\* line 154, the probe: kubectl.RunWithOpts([]string{"get", "namespace"}, runOpts{})
Probe == KubectlRunWithOpts(script[attempts + 1], FALSE)

InLoop == op \in CheckOps /\ ppc = "loop" /\ LoopGuard(retries, maxRetries)

\* line 154 when the probe's process fails: runOpts{} leaves AllowError false
ProbeFatal ==
    /\ InLoop
    /\ Probe.fatal
    /\ attempts' = attempts + 1
    /\ ppc' = Fatalf
    /\ UNCHANGED <<op, created, maxRetries, allowError, retries, sleeps, script,
                   result, out, err>>
    /\ UNCHANGED <<deployVars, counterVars, cancelVars, lifeVars>>

\* lines 154-164 when the output shows the awaited state
ProbeSatisfied ==
    /\ InLoop
    /\ ~Probe.fatal
    /\ Satisfied(created, Probe.out, Target)
    /\ attempts' = attempts + 1
    /\ CheckReturns(TRUE)
    /\ UNCHANGED <<op, created, maxRetries, allowError, retries, sleeps, script, out, err>>
    /\ UNCHANGED <<deployVars, counterVars, cancelVars, lifeVars>>

\* lines 154-168 when it does not
ProbeRetry ==
    /\ InLoop
    /\ ~Probe.fatal
    /\ ~Satisfied(created, Probe.out, Target)
    /\ attempts' = attempts + 1
    /\ retries' = retries + 1
    /\ sleeps' = sleeps + 1
    /\ UNCHANGED <<op, ppc, created, maxRetries, allowError, script, result, out, err>>
    /\ UNCHANGED <<deployVars, counterVars, cancelVars, lifeVars>>

\* the loop running out reported as a timeout
ExhaustedFalse == FALSE

\* what checkNamespace returns once the loop has run out
Exhausted == TRUE

\* line 171
CheckExhausted ==
    /\ op \in CheckOps /\ ppc = "loop" /\ ~LoopGuard(retries, maxRetries)
    /\ CheckReturns(Exhausted)
    /\ UNCHANGED <<op, created, maxRetries, allowError, retries, attempts, sleeps,
                   script, out, err>>
    /\ UNCHANGED <<deployVars, counterVars, cancelVars, lifeVars>>

\* lines 131-133 and 140-142: t.Fatalf("... timed out") unless checkNamespace said true
WaitReturn ==
    /\ op \in CheckOps /\ ppc = "checked"
    /\ ppc' = IF ~result THEN "failed" ELSE "returned"
    /\ UNCHANGED <<op, created, maxRetries, allowError, retries, attempts, sleeps,
                   script, result, out, err>>
    /\ UNCHANGED <<deployVars, counterVars, cancelVars, lifeVars>>

-----------------------------------------------------------------------------
(* createNamespace *)

\* createNamespace(t, namespace, maxRetries, logger)
CallCreateNamespace ==
    /\ ppc = "idle"
    /\ \E m \in Budgets, sc \in CreateScripts :
        Call("createNamespace", FALSE, m, TRUE, sc)

\* the loop making one attempt more
CreateGuardInclusive(r, m) == r <= m

\* line 186: for retries < maxRetries
CreateGuard(r, m) == r < m

\* line 187: kubectl.RunWithOpts([]string{"create", "namespace", namespace}, runOpts{AllowError: true})
Submit == KubectlRunWithOpts(script[attempts + 1], TRUE)

InCreateLoop == op = "createNamespace" /\ ppc = "loop" /\ CreateGuard(retries, maxRetries)

\* lines 187-190 (with AllowError set the runner always returns)
CreateSucceeds ==
    /\ InCreateLoop
    /\ ~Submit.fatal /\ Submit.err.nil
    /\ attempts' = attempts + 1
    /\ out' = Submit.out
    /\ err' = NilError
    /\ ppc' = "returned"
    /\ UNCHANGED <<op, created, maxRetries, allowError, retries, sleeps, script, result>>
    /\ UNCHANGED <<deployVars, counterVars, cancelVars, lifeVars>>

\* lines 187-193
CreateFails ==
    /\ InCreateLoop
    /\ ~Submit.fatal /\ ~Submit.err.nil
    /\ attempts' = attempts + 1
    /\ out' = Submit.out
    /\ err' = Submit.err
    /\ retries' = retries + 1
    /\ sleeps' = sleeps + 1
    /\ UNCHANGED <<op, ppc, created, maxRetries, allowError, script, result>>
    /\ UNCHANGED <<deployVars, counterVars, cancelVars, lifeVars>>

\* line 196
CreateExhausted ==
    /\ op = "createNamespace" /\ ppc = "loop" /\ ~CreateGuard(retries, maxRetries)
    /\ ppc' = "returned"
    /\ UNCHANGED <<op, created, maxRetries, allowError, retries, attempts, sleeps,
                   script, result, out, err>>
    /\ UNCHANGED <<deployVars, counterVars, cancelVars, lifeVars>>

-----------------------------------------------------------------------------
(* The shared counters *)

Callers == 1..NumCallers

\* the base the service names are built on
Base == <<"s", "v", "c">>

Digit(d) == <<"0", "1", "2", "3", "4", "5", "6", "7", "8", "9">>[d + 1]

RECURSIVE Digits(_)
Digits(n) == IF n < 10 THEN <<Digit(n)>> ELSE Append(Digits(n \div 10), Digit(n % 10))

\* strconv.Itoa(n)
Itoa(n) == IF n < 0 THEN <<"-">> \o Digits(-n) ELSE Digits(n)

\* a mutex that never makes a caller wait
LockIgnored == TRUE

\* lines 74 and 82, m.Lock(): returns once no one holds the mutex
LockFree == mutex = 0

CallsMade == Len(nsReturned) + Len(svcReturned) + Cardinality({q \in Callers : cpc[q] # "idle"})

\* a goroutine calls getNamespaceCountAndIncrement or getServiceNameAndIncrement
CallCounter(p) ==
    /\ cpc[p] = "idle"
    /\ CallsMade < MaxCalls
    /\ \E w \in {"ns", "svc"} : which' = [which EXCEPT ![p] = w]
    /\ cpc' = [cpc EXCEPT ![p] = "lock"]
    /\ UNCHANGED <<namespaceCount, serviceCount, mutex, current, nsReturned,
                   svcReturned, initCount>>
    /\ UNCHANGED <<deployVars, pollVars, cancelVars, lifeVars>>

\* lines 74, 82
Lock(p) ==
    /\ cpc[p] = "lock"
    /\ LockFree
    /\ mutex' = p
    /\ cpc' = [cpc EXCEPT ![p] = "read"]
    /\ UNCHANGED <<namespaceCount, serviceCount, which, current, nsReturned,
                   svcReturned, initCount>>
    /\ UNCHANGED <<deployVars, pollVars, cancelVars, lifeVars>>

\* lines 76, 84: current := namespaceCount | serviceCount
ReadCount(p) ==
    /\ cpc[p] = "read"
    /\ current' = [current EXCEPT ![p] =
                      IF which[p] = "ns" THEN namespaceCount ELSE serviceCount]
    /\ cpc' = [cpc EXCEPT ![p] = "incr"]
    /\ UNCHANGED <<namespaceCount, serviceCount, mutex, which, nsReturned,
                   svcReturned, initCount>>
    /\ UNCHANGED <<deployVars, pollVars, cancelVars, lifeVars>>

\* lines 77, 85: namespaceCount++ | serviceCount++
Increment(p) ==
    /\ cpc[p] = "incr"
    /\ IF which[p] = "ns"
       THEN namespaceCount' = namespaceCount + 1 /\ UNCHANGED serviceCount
       ELSE serviceCount' = serviceCount + 1 /\ UNCHANGED namespaceCount
    /\ cpc' = [cpc EXCEPT ![p] = "ret"]
    /\ UNCHANGED <<mutex, which, current, nsReturned, svcReturned, initCount>>
    /\ UNCHANGED <<deployVars, pollVars, cancelVars, lifeVars>>

\* lines 78, 86 and the deferred m.Unlock() of lines 75, 83
ReturnCount(p) ==
    /\ cpc[p] = "ret"
    /\ IF which[p] = "ns"
       THEN nsReturned' = Append(nsReturned, current[p]) /\ UNCHANGED svcReturned
       ELSE svcReturned' = Append(svcReturned, Base \o Itoa(current[p]))
            /\ UNCHANGED nsReturned
    /\ mutex' = 0
    /\ cpc' = [cpc EXCEPT ![p] = "idle"]
    /\ UNCHANGED <<namespaceCount, serviceCount, which, current, initCount>>
    /\ UNCHANGED <<deployVars, pollVars, cancelVars, lifeVars>>

\* the values the counters are declared with
StartCounts == {0, 9}

\* process start: the counters at their declared values, the mutex free
CounterInit ==
    /\ initCount \in [ns : StartCounts, svc : StartCounts]
    /\ namespaceCount = initCount.ns
    /\ serviceCount = initCount.svc
    /\ mutex = 0
    /\ cpc = [p \in Callers |-> "idle"]
    /\ which = [p \in Callers |-> "ns"]
    /\ current = [p \in Callers |-> 0]
    /\ nsReturned = <<>>
    /\ svcReturned = <<>>

-----------------------------------------------------------------------------
(* runCLIWithOpts with its cancellation listener, step by step *)

\* a second signal the listener could send
Kill == "kill"

\* line 212: os.Interrupt
Interrupt == "interrupt"

\* the process is running: no Logger.Fatalf, no panic in a goroutine
Alive == rpc # Fatalf /\ lpc # "crashed"

\* lines 199-223: the command is built (cmd.Process is nil), the listener is
\* launched when a channel is supplied, the streams are wired
RunnerBegin ==
    /\ rpc = "idle"
    /\ \E ch \in Children, allow \in BOOLEAN, hasCh \in BOOLEAN, w \in BOOLEAN :
        /\ behaviour' = ch
        /\ rallow' = allow
        /\ writer' = w
        /\ cancelCh' = IF hasCh THEN "open" ELSE "nil"
        /\ lpc' = IF hasCh THEN "waiting" ELSE "none"
    /\ rpc' = "created"
    /\ cmdProcess' = "nil"
    /\ UNCHANGED <<reaped, childProc, exitStatus, runErr, signals, firedAt, rout, rerr>>
    /\ UNCHANGED <<deployVars, pollVars, counterVars, lifeVars>>

\* line 225, cmd.Run(): Start spawns the child and stores cmd.Process, or fails
CmdStart ==
    /\ rpc = "created" /\ Alive
    /\ IF behaviour.outcome = "spawnfail"
       THEN /\ rpc' = "ran"
            /\ runErr' = "spawnfail"
            /\ UNCHANGED <<cmdProcess, childProc>>
       ELSE /\ rpc' = "started"
            /\ cmdProcess' = "set"
            /\ childProc' = "running"
            /\ UNCHANGED runErr
    /\ UNCHANGED <<cancelCh, lpc, reaped, behaviour, exitStatus, rallow, writer,
                   signals, firedAt, rout, rerr>>
    /\ UNCHANGED <<deployVars, pollVars, counterVars, lifeVars>>

\* the child ends: as it would have, or on the interrupt it was sent
ChildExit ==
    /\ childProc = "running"
    /\ childProc' = "exited"
    /\ exitStatus' \in (IF signals # <<>> THEN {behaviour.outcome, "interrupted"}
                                         ELSE {behaviour.outcome})
    /\ UNCHANGED <<rpc, cancelCh, lpc, cmdProcess, reaped, behaviour, runErr, rallow,
                   writer, signals, firedAt, rout, rerr>>
    /\ UNCHANGED <<deployVars, pollVars, counterVars, lifeVars>>

\* line 225, cmd.Run(): Wait returns once the child has ended
CmdWait ==
    /\ rpc = "started" /\ Alive
    /\ childProc = "exited"
    /\ reaped' = TRUE
    /\ runErr' = exitStatus
    /\ rpc' = "ran"
    /\ UNCHANGED <<cancelCh, lpc, cmdProcess, childProc, behaviour, exitStatus, rallow,
                   writer, signals, firedAt, rout, rerr>>
    /\ UNCHANGED <<deployVars, pollVars, counterVars, lifeVars>>

\* lines 226-234
RunnerReturn ==
    /\ rpc = "ran" /\ Alive
    /\ LET r == RunCLIWithOpts(Child(runErr, behaviour.stdout, behaviour.stderr), rallow)
       IN  IF r.fatal
           THEN /\ rpc' = Fatalf
                /\ UNCHANGED <<rout, rerr>>
           ELSE /\ rpc' = "returned"
                /\ rout' = IF writer THEN <<>> ELSE r.out
                /\ rerr' = r.err
    /\ UNCHANGED <<cancelCh, lpc, cmdProcess, reaped, childProc, behaviour, exitStatus,
                   runErr, rallow, writer, signals, firedAt>>
    /\ UNCHANGED <<deployVars, pollVars, counterVars, lifeVars>>

\* the owner of the channel closes it or sends on it
Fire ==
    /\ cancelCh = "open" /\ Alive
    /\ cancelCh' = "fired"
    /\ firedAt' = childProc
    /\ UNCHANGED <<rpc, lpc, cmdProcess, reaped, childProc, behaviour, exitStatus, runErr,
                   rallow, writer, signals, rout, rerr>>
    /\ UNCHANGED <<deployVars, pollVars, counterVars, lifeVars>>

\* line 212 reads cmd.Process, which line 225 writes in another goroutine with
\* no synchronisation between the two: the read yields nil until Start has
\* stored the handle and either value afterwards
ProcessReads == IF cmdProcess = "set" THEN {"nil", "set"} ELSE {"nil"}

\* lines 210-212: the receive completes and cmd.Process.Signal(os.Interrupt)
\* runs; on a nil handle the goroutine panics, on a handle already waited for
\* Signal returns an error (dropped) and sends nothing
ListenerSignal ==
    /\ lpc = "waiting" /\ cancelCh = "fired" /\ Alive
    /\ \E seen \in ProcessReads :
        IF seen = "nil"
        THEN /\ lpc' = "crashed"
             /\ UNCHANGED signals
        ELSE /\ lpc' = "done"
             /\ signals' = IF reaped THEN signals
                           ELSE Append(signals, [sig |-> Interrupt, to |-> childProc])
    /\ UNCHANGED <<rpc, cancelCh, cmdProcess, reaped, childProc, behaviour, exitStatus,
                   runErr, rallow, writer, firedAt, rout, rerr>>
    /\ UNCHANGED <<deployVars, pollVars, counterVars, lifeVars>>

CancelInit ==
    /\ rpc = "idle"
    /\ cancelCh = "nil"
    /\ lpc = "none"
    /\ cmdProcess = "nil"
    /\ reaped = FALSE
    /\ childProc = "none"
    /\ behaviour = Child("exit0", <<>>, <<>>)
    /\ exitStatus = "none"
    /\ runErr = "none"
    /\ rallow = FALSE
    /\ writer = FALSE
    /\ signals = <<>>
    /\ firedAt = "never"
    /\ rout = <<>>
    /\ rerr = NilError

-----------------------------------------------------------------------------
(* e2eTest: Setup, CreateTestNamespace, DeleteTestNamespace, Teardown *)

Namespac == <<"n", "a", "m", "e", "s", "p", "a", "c">>
CreatedWord == <<"c", "r", "e", "a", "t", "e", "d">>
DeletedWord == <<"d", "e", "l", "e", "t", "e", "d">>

\* s has w at position i
At(s, i, w) == i >= 1 /\ i + Len(w) - 1 <= Len(s) /\ SubSeq(s, i, i + Len(w) - 1) = w

\* s[a..b] is a non-empty run of characters other than newline: what .+ matches
Some(s, a, b) == a <= b /\ \A x \in a..b : s[x] # "\n"

\* lines 241-247 with the patterns of lines 99 and 120:
\* regexp.MatchString("namespace?.+<ns>.+<word>", actual)
MatchRegexp(ns, word, actual) ==
    \E i \in 1..Len(actual) :
        /\ At(actual, i, Namespac)
        /\ \E p \in {i + Len(Namespac)} \cup
                    (IF At(actual, i + Len(Namespac), <<"e">>)
                     THEN {i + Len(Namespac) + 1} ELSE {}) :
            \E j \in (p + 1)..Len(actual) :
                /\ Some(actual, p, j - 1)
                /\ At(actual, j, ns)
                /\ \E k \in (j + Len(ns) + 1)..Len(actual) :
                    /\ Some(actual, j + Len(ns), k - 1)
                    /\ At(actual, k, word)

\* what kubectl prints
KubectlText(ns, word) == Namespac \o <<"e", "/">> \o ns \o <<" ">> \o word

Texts(ns, word) == {KubectlText(ns, word), ns \o <<" ">> \o word, <<>>}

\* the create commands of one CreateTestNamespace call: failing up to attempt
\* okAt, which succeeds printing text (0: none succeeds)
LifeCreateScripts(ns) ==
    { [n \in 1..MaxRetries |->
          IF okAt # 0 /\ n >= okAt THEN Child("exit0", text, <<>>)
          ELSE Child("nonzero", <<>>, <<"e">>)] :
      okAt \in {0, 1, 2}, text \in Texts(ns, CreatedWord) }

\* the delete command of one DeleteTestNamespace call
LifeDeleteChildren(ns) ==
    { Child("exit0", text, <<>>) : text \in Texts(ns, DeletedWord) }
    \cup { Child("nonzero", <<>>, <<"e">>) }

\* lines 174-197 run to the end
RECURSIVE CreateNamespaceLoop(_, _, _, _, _)
CreateNamespaceLoop(sc, r, m, o, e) ==
    IF ~CreateGuard(r, m) THEN [out |-> o, err |-> e]
    ELSE LET s == KubectlRunWithOpts(sc[r + 1], TRUE)
         IN  IF s.err.nil THEN [out |-> s.out, err |-> NilError]
             ELSE CreateNamespaceLoop(sc, r + 1, m, s.out, s.err)

CreateNamespace(sc, m) == CreateNamespaceLoop(sc, 0, m, <<>>, NilError)

\* lines 97-110: how CreateTestNamespace ends: "exit" (Logger.Fatalf),
\* "fatal" (t.Fatalf) or "ok" (line 109 reached)
CreateOutcome(ns, sc) ==
    LET r == CreateNamespace(sc, MaxRetries)
    IN  IF ~r.err.nil THEN "exit"
        ELSE IF ~MatchRegexp(ns, CreatedWord, r.out) THEN "fatal"
        ELSE "ok"

\* lines 113-125: how DeleteTestNamespace ends; the runner is called with
\* runOpts{}, so a failing command ends the process inside it
DeleteOutcome(ns, ch) ==
    LET r == KubectlRunWithOpts(ch, FALSE)
    IN  IF r.fatal THEN "exit"
        ELSE IF ~r.err.nil THEN "fatal"
        ELSE IF ~MatchRegexp(ns, DeletedWord, r.out) THEN "fatal"
        ELSE "ok"

\* lines 137-143: how WaitForNamespaceCreated ends: the listing command fails
\* (the process exits inside the runner) or checkNamespace returns
WaitOutcome(probeFails) ==
    IF probeFails THEN "exit" ELSE IF Exhausted THEN "ok" ELSE "fatal"

\* a Teardown that deletes whatever the flag says
TeardownAlways(flag) == TRUE

\* line 91: if test.namespaceCreated
TeardownGuard(flag) == flag

\* one call on the e2eTest: name, the commands it issued, the namespace
\* operation it completed, whether it returned normally
Record(call, issued, nsop, outcome) ==
    [call |-> call, issued |-> issued, nsop |-> nsop, completed |-> outcome = "ok"]

\* how a call ends: Logger.Fatalf ends the process; t.Fatalf marks the test
\* failed and unwinds the call (runtime.Goexit), after which deferred and
\* cleanup functions may still call the e2eTest
Ends(outcome) ==
    /\ tpc' = IF outcome = "exit" THEN Fatalf ELSE tpc
    /\ tfailed' = (tfailed \/ outcome = "fatal")

CanCall == tpc = "running" /\ Len(hist) < MaxOps

\* lines 64-71
Setup ==
    /\ CanCall
    /\ LET ns == Namespace \o Itoa(namespaceCount)
       IN  /\ Namespace' = ns
           /\ namespaceCount' = namespaceCount + 1
           /\ IF createNamespaceOnSetup
              THEN \E sc \in LifeCreateScripts(ns), probeFails \in BOOLEAN :
                    LET c == CreateOutcome(ns, sc)
                        o == IF c = "ok" THEN WaitOutcome(probeFails) ELSE c
                    IN  /\ namespaceCreated' = IF c = "ok" THEN TRUE ELSE namespaceCreated
                        /\ hist' = Append(hist, Record("Setup", {"create"},
                                            IF c = "ok" THEN "create" ELSE "none", o))
                        /\ Ends(o)
              ELSE /\ hist' = Append(hist, Record("Setup", {}, "none", "ok"))
                   /\ Ends("ok")
                   /\ UNCHANGED namespaceCreated
    /\ UNCHANGED createNamespaceOnSetup
    /\ UNCHANGED <<serviceCount, mutex, cpc, which, current, nsReturned, svcReturned,
                   initCount>>
    /\ UNCHANGED <<deployVars, pollVars, cancelVars>>

\* lines 97-110
CreateTestNamespace ==
    /\ CanCall
    /\ \E sc \in LifeCreateScripts(Namespace) :
        LET c == CreateOutcome(Namespace, sc)
        IN  /\ namespaceCreated' = IF c = "ok" THEN TRUE ELSE namespaceCreated
            /\ hist' = Append(hist, Record("CreateTestNamespace", {"create"},
                                IF c = "ok" THEN "create" ELSE "none", c))
            /\ Ends(c)
    /\ UNCHANGED <<Namespace, createNamespaceOnSetup>>
    /\ UNCHANGED <<deployVars, pollVars, counterVars, cancelVars>>

\* lines 113-125 called from `call`
Delete(call) ==
    \E ch \in LifeDeleteChildren(Namespace) :
        LET d == DeleteOutcome(Namespace, ch)
        IN  /\ namespaceCreated' = IF d = "ok" THEN FALSE ELSE namespaceCreated
            /\ hist' = Append(hist, Record(call, {"delete"},
                                IF d = "ok" THEN "delete" ELSE "none", d))
            /\ Ends(d)

\* lines 113-125
DeleteTestNamespace ==
    /\ CanCall
    /\ Delete("DeleteTestNamespace")
    /\ UNCHANGED <<Namespace, createNamespaceOnSetup>>
    /\ UNCHANGED <<deployVars, pollVars, counterVars, cancelVars>>

\* lines 90-94
Teardown ==
    /\ CanCall
    /\ IF TeardownGuard(namespaceCreated)
       THEN Delete("Teardown")
       ELSE /\ hist' = Append(hist, Record("Teardown", {}, "none", "ok"))
            /\ Ends("ok")
            /\ UNCHANGED namespaceCreated
    /\ UNCHANGED <<Namespace, createNamespaceOnSetup>>
    /\ UNCHANGED <<deployVars, pollVars, counterVars, cancelVars>>

\* the base name of buildEnv, and the e2eTest NewE2eTest returns (lines 56-61)
LifeInit ==
    /\ tpc = "running"
    /\ tfailed = FALSE
    /\ Namespace = <<"n">>
    /\ createNamespaceOnSetup = TRUE
    /\ namespaceCreated = FALSE
    /\ hist = <<>>

PollInit ==
    /\ op = "none"
    /\ ppc = "idle"
    /\ created = FALSE
    /\ maxRetries = 0
    /\ allowError = FALSE
    /\ retries = 0
    /\ attempts = 0
    /\ sleeps = 0
    /\ script = <<>>
    /\ result = FALSE
    /\ out = <<>>
    /\ err = [nil |-> TRUE, stderr |-> <<>>, cause |-> "none"]

Init == DeployInit /\ PollInit /\ CounterInit /\ CancelInit /\ LifeInit

\* process start with the counters declared with the zero value
InitZero == Init /\ initCount = [ns |-> 0, svc |-> 0]

DeployNext ==
    \/ RunDeployStart
    \/ StepMkdir
    \/ StepExec
    \/ StepFile
    \/ StepInvalid
    \/ RunDeployReturn

SpecDeploy == InitZero /\ [][DeployNext]_vars

PollNext ==
    \/ RunCLI
    \/ CallCheckNamespace
    \/ CallWaitForNamespace
    \/ ProbeFatal
    \/ ProbeSatisfied
    \/ ProbeRetry
    \/ CheckExhausted
    \/ WaitReturn
    \/ CallCreateNamespace
    \/ CreateSucceeds
    \/ CreateFails
    \/ CreateExhausted

SpecPoll == InitZero /\ [][PollNext]_vars

CounterNext ==
    \E p \in Callers :
        \/ CallCounter(p)
        \/ Lock(p)
        \/ ReadCount(p)
        \/ Increment(p)
        \/ ReturnCount(p)

SpecCounter == Init /\ [][CounterNext]_vars

CancelNext ==
    \/ RunnerBegin
    \/ CmdStart
    \/ ChildExit
    \/ CmdWait
    \/ RunnerReturn
    \/ Fire
    \/ ListenerSignal

SpecCancel == InitZero /\ [][CancelNext]_vars

LifeNext ==
    \/ Setup
    \/ CreateTestNamespace
    \/ DeleteTestNamespace
    \/ Teardown

SpecLife == InitZero /\ [][LifeNext]_vars

-----------------------------------------------------------------------------
(* Properties of RunDeploy *)

IsEffect(e) == e.type \in {"mkdir", "spawn", "render"}

EventsOf(i) == {n \in 1..Len(events) : events[n].step = i}

Started(i) == \E n \in 1..Len(events) : events[n].type = "marker" /\ events[n].step = i

NoPayload(step) == step.Mkdir = <<>> /\ step.Exec = <<>> /\ step.Source = <<>>

\* every directory and file an earlier step made is still there
EffectsRemain ==
    \A n \in 1..Len(events) :
        /\ events[n].type = "mkdir" => events[n].arg \in dirs
        /\ events[n].type = "render" => events[n].arg \in files

\* C1: steps run in declaration order and RunDeploy is fail-fast: once an
\* operation of step k has failed (directory creation, executable lookup,
\* process exit, template or render error, no payload) RunDeploy has returned
\* an error of step k and nothing of a later step ever happens; with no
\* failure every step's side effect happens, in step order, and RunDeploy
\* returns nil.
C1_FailFastInOrder ==
    /\ \A m, n \in 1..Len(events) : m < n => events[m].step <= events[n].step
    /\ \A k \in 1..Len(failures) :
        /\ \A n \in 1..Len(events) : events[n].step <= failures[k].step
        /\ dpc = "done"
        /\ \E j \in 1..Len(failures) : ret = failures[j] /\ ret.step = failures[k].step
    /\ (dpc = "done" /\ failures = <<>> /\ ret.kind # "load") =>
        /\ ret = NoErr
        /\ \A i \in 1..Len(plan) : \E n \in EventsOf(i) : IsEffect(events[n])

\* C9: a template or render error in a step makes RunDeploy return an error,
\* the step leaves no filesystem side effect and no later step runs.
C9_TemplateErrorAborts ==
    \A k \in 1..Len(failures) :
        failures[k].kind \in {"template", "render"} =>
            /\ dpc = "done" /\ ret.kind \notin {"none", "pending"}
            /\ \A n \in 1..Len(events) :
                /\ events[n].step <= failures[k].step
                /\ events[n].step = failures[k].step => ~IsEffect(events[n])

\* C10: a step reached with none of its three payloads set makes RunDeploy
\* return the configuration error naming that step; neither it nor a later
\* step has any side effect, and what earlier steps made is still there.
C10_NoPayloadIsConfigError ==
    \A i \in 1..Len(plan) :
        (NoPayload(plan[i]) /\ Started(i)) =>
            /\ dpc = "done"
            /\ ret = Err("config", i, plan[i].Name)
            /\ \A n \in 1..Len(events) :
                /\ events[n].step <= i
                /\ events[n].step = i => ~IsEffect(events[n])
            /\ EffectsRemain

\* a plan whose third step has no payload, after a directory and a process
C10_Witness ==
    /\ dpc = "done" /\ ret.kind = "config" /\ ret.step = 3
    /\ dirs # {}
    /\ \E n \in 1..Len(events) : events[n].type = "spawn"


Markers == SelectSeq(events, LAMBDA e : e.type = "marker")

\* steps whose pass of the loop has begun
StepsStarted ==
    IF dpc = "idle" \/ ret.kind = "load" THEN 0
    ELSE IF dpc = "loop" THEN idx - 1
    ELSE IF ret = NoErr THEN Len(plan)
    ELSE idx

IsSpace(c) == c \in {" ", "\t", "\n"}

RECURSIVE Fields(_)
\* the whitespace-delimited tokens of s, none of them empty
Fields(s) ==
    IF s = <<>> THEN <<>>
    ELSE IF IsSpace(Head(s)) THEN Fields(Tail(s))
    ELSE LET n == IF \E i \in 1..Len(s) : IsSpace(s[i])
                  THEN (CHOOSE i \in 1..Len(s) :
                            IsSpace(s[i]) /\ \A j \in 1..(i - 1) : ~IsSpace(s[j]))
                  ELSE Len(s) + 1
         IN  <<Take(s, n)>> \o Fields(Drop(s, n))

\* C15: an Exec step looks up the first whitespace-delimited token of its
\* command line and runs it with exactly the remaining non-empty tokens, in
\* order, however the tokens are spaced.
C15_ExecSplitOnWhitespace ==
    /\ \A n \in 1..Len(events) :
        events[n].type = "spawn" => events[n].arg = Fields(plan[events[n].step].Exec)
    /\ \A k \in 1..Len(failures) :
        failures[k].kind = "lookpath" =>
            failures[k].name = Fields(plan[failures[k].step].Exec)[1]

FirstPayload(step) ==
    IF step.Mkdir # <<>> THEN "mkdir"
    ELSE IF step.Exec # <<>> THEN "spawn"
    ELSE "render"

\* C18: a step with more than one payload does the action of the first
\* non-empty one in the order mkdir, exec, file source and of no other, and
\* the ambiguity is not reported as an error.
C18_FirstPayloadOnly ==
    \A i \in 1..Len(plan) :
        ~NoPayload(plan[i]) =>
            /\ \A n \in EventsOf(i) :
                IsEffect(events[n]) => events[n].type = FirstPayload(plan[i])
            /\ Cardinality({n \in EventsOf(i) : IsEffect(events[n])}) <= 1
            /\ \A k \in 1..Len(failures) :
                failures[k].step = i => failures[k].kind # "config"

\* a step carrying all three payloads has made its directory and nothing else
C18_Witness ==
    \E i \in 1..Len(plan) :
        /\ plan[i].Mkdir # <<>> /\ plan[i].Exec # <<>> /\ plan[i].Source # <<>>
        /\ \E n \in EventsOf(i) : events[n].type = "mkdir"
        /\ idx > i

-----------------------------------------------------------------------------
(* Properties of the process runner and the pollers *)

\* the n-th listing is a successful one that shows the awaited state: the
\* name in it when waiting for creation, not in it when waiting for deletion
ShowsAwaited(n) ==
    /\ script[n].outcome = "exit0"
    /\ created <=> Contains(script[n].stdout, Target)

\* the first listing that shows the awaited state, 0 when none does
FirstAwaited ==
    IF \E n \in 1..Len(script) : ShowsAwaited(n)
    THEN CHOOSE n \in 1..Len(script) :
            ShowsAwaited(n) /\ \A m \in 1..(n - 1) : ~ShowsAwaited(m)
    ELSE 0

\* the first create command that succeeds, 0 when none does
FirstCreated ==
    IF \E n \in 1..Len(script) : script[n].outcome = "exit0"
    THEN CHOOSE n \in 1..Len(script) :
            script[n].outcome = "exit0" /\ \A m \in 1..(n - 1) : script[m].outcome # "exit0"
    ELSE 0

NoneFails(upto) == \A n \in 1..upto : script[n].outcome = "exit0"

\* C2: a failing child ends the run when AllowError is false; when it is
\* true the call returns a non-nil error carrying the captured standard
\* error and the system error; a child exiting with zero gives a nil error
\* whatever AllowError is.
C2_FatalUnlessAllowed ==
    op = "runCLIWithOpts" =>
        LET child == script[1]
        IN  /\ (child.outcome # "exit0" /\ ~allowError) => ppc = "exited"
            /\ (child.outcome # "exit0" /\ allowError) =>
                /\ ppc = "returned"
                /\ ~err.nil
                /\ err.stderr = child.stderr
                /\ err.cause = child.outcome
            /\ child.outcome = "exit0" => (ppc = "returned" /\ err.nil)

\* a tolerated failure came back with the child's standard error in it
C2_Witness ==
    /\ op = "runCLIWithOpts" /\ ppc = "returned" /\ allowError
    /\ ~err.nil /\ err.stderr = <<"e">> /\ err.cause = "nonzero"

\* C3: when no listing ever shows the awaited state, checkNamespace returns
\* after exactly maxRetries probes, maxRetries being its parameter.
C3_ProbesEqualParameter ==
    (op = "checkNamespace" /\ ppc = "returned" /\ FirstAwaited = 0) =>
        attempts = maxRetries

\* C4: when the first listing that shows the awaited state is the j-th and
\* j is within the budget maxRetries, checkNamespace makes exactly j probes
\* and j-1 sleeps and returns true.
C4_StopsAtFirstAwaited ==
    (/\ op = "checkNamespace" /\ ppc = "returned"
     /\ FirstAwaited \in 1..maxRetries
     /\ NoneFails(FirstAwaited)) =>
        /\ attempts = FirstAwaited
        /\ sleeps = FirstAwaited - 1
        /\ result = TRUE

\* C5: WaitForNamespaceCreated and WaitForNamespaceDeleted return normally
\* only if some probe saw the awaited state; a budget used up without it ends
\* in the 'timed out' test failure.
C5_ReturnsOnlyIfObserved ==
    (op \in {"WaitForNamespaceCreated", "WaitForNamespaceDeleted"} /\ ppc = "returned") =>
        \E n \in 1..attempts : ShowsAwaited(n)

\* C7: with a budget of at least one, createNamespace submits until an
\* attempt succeeds: if the first success is the j-th and within the budget
\* it returns that attempt's output and a nil error after exactly j
\* submissions, otherwise it makes exactly maxRetries submissions and returns
\* the last attempt's error; it never submits more than that.
C7_SubmitsUntilSuccess ==
    (op = "createNamespace" /\ maxRetries >= 1) =>
        LET j == FirstCreated
            last == IF j \in 1..maxRetries THEN j ELSE maxRetries
        IN  /\ attempts <= last
            /\ ppc = "returned" =>
                /\ attempts = last
                /\ IF j \in 1..maxRetries
                   THEN err.nil /\ out = script[j].stdout
                   ELSE err = ExecutionError(script[last].stderr, script[last].outcome)

\* the create command went through at the third submission
C7_Witness ==
    /\ op = "createNamespace" /\ ppc = "returned"
    /\ attempts = 3 /\ sleeps = 2 /\ err.nil /\ out = <<"c", 3>>

\* C8: a probe whose process fails does not end the run: the attempt counts
\* as one that did not show the awaited state, is followed by the sleep, and
\* polling goes on.
C8_ProbeFailureSwallowed ==
    \A n \in 1..attempts :
        (op \in CheckOps /\ script[n].outcome # "exit0") =>
            /\ ppc # "exited"
            /\ retries >= n
            /\ sleeps >= n

\* C13: a call of checkNamespace or createNamespace that has made a attempts
\* has slept a-1 times when it returns, by success or by running out.
C13_SleepsBetweenAttempts ==
    (op \in {"checkNamespace", "createNamespace"} /\ ppc = "returned" /\ attempts >= 1) =>
        sleeps = attempts - 1

\* C14: whatever the target, the budget and the listings, checkNamespace
\* returns true whenever it returns, also when the loop ran out without any
\* listing showing the awaited state.
C14_AlwaysTrue ==
    (op \in CheckOps /\ ppc \in {"checked", "returned"}) => result = TRUE

\* the loop ran out on listings that never showed the name, and true came back
C14_Witness ==
    /\ op = "checkNamespace" /\ ppc = "returned" /\ created
    /\ FirstAwaited = 0 /\ retries = MaxRetries /\ attempts = MaxRetries
    /\ result = TRUE

\* the listing names exactly this namespace on one of its lines
HasLine(output, name) ==
    \E k \in 1..Len(Split(output, "\n")) : Split(output, "\n")[k] = name

\* C16: waiting for creation, checkNamespace takes the name as present only on
\* a listing with a namespace of exactly that name; waiting for deletion, it
\* returns on the first listing without such a namespace; a namespace whose
\* name only contains the target name changes neither.
C16_ExactNameDecides ==
    /\ (op \in CheckOps /\ created /\ ppc \in {"checked", "returned"}
            /\ attempts = retries + 1) =>
        HasLine(script[attempts].stdout, Target)
    /\ \A n \in 1..attempts :
        (op \in CheckOps /\ ~created /\ script[n].outcome = "exit0"
                /\ ~HasLine(script[n].stdout, Target)) =>
            (attempts = n /\ ppc # "loop")

\* C19: createNamespace returns a nil error only after at least one
\* submission, the last of which succeeded, whatever the budget.
C19_NilOnlyAfterSuccess ==
    (op = "createNamespace" /\ ppc = "returned" /\ err.nil) =>
        (attempts >= 1 /\ script[attempts].outcome = "exit0")

-----------------------------------------------------------------------------
(* Properties of the shared counters *)

Values(seq) == {seq[i] : i \in 1..Len(seq)}

\* callers of the function w that have incremented and not yet returned
Incremented(w) == {p \in Callers : which[p] = w /\ cpc[p] = "ret"}

CountersGapless ==
    /\ Cardinality(Values(nsReturned)) = Len(nsReturned)
    /\ Values(nsReturned) = initCount.ns..(initCount.ns + Len(nsReturned) - 1)
    /\ namespaceCount = initCount.ns + Len(nsReturned) + Cardinality(Incremented("ns"))
    /\ Cardinality(Values(svcReturned)) = Len(svcReturned)
    /\ Values(svcReturned) =
          {Base \o Itoa(n) : n \in initCount.svc..(initCount.svc + Len(svcReturned) - 1)}
    /\ serviceCount = initCount.svc + Len(svcReturned) + Cardinality(Incremented("svc"))

\* C6: however the calls interleave, what each counter function has returned
\* after n completed calls is n distinct values, exactly the ordinals c0 ..
\* c0+n-1; the counter is c0 plus one for every call that has incremented,
\* and it never decreases.
C6_DistinctGapless ==
    /\ []CountersGapless
    /\ [][namespaceCount' >= namespaceCount /\ serviceCount' >= serviceCount]_vars

\* two namespace ordinals handed out, a third caller in the critical section
\* and another one waiting for the mutex it holds
C6_Witness ==
    /\ Len(nsReturned) = 2
    /\ \E p, q \in Callers :
        /\ p # q
        /\ cpc[p] = "lock" /\ which[p] = "ns"
        /\ mutex = q /\ cpc[q] = "ret" /\ which[q] = "ns"

-----------------------------------------------------------------------------
(* Properties of the cancellation listener *)

\* the runner is back only with the child ended, or never spawned
ReturnsAfterChild ==
    rpc = "returned" => (childProc = "exited" \/ (childProc = "none" /\ runErr = "spawnfail"))

\* no signal without a supplied channel that has fired
SignalsOnlyOnFire == signals # <<>> => cancelCh = "fired"

C17_ListenerNeverCrashes == lpc # "crashed"

-----------------------------------------------------------------------------
(* Properties of the e2eTest *)

\* the namespace operation most recently completed among the first k calls
LastOk(k) ==
    LET ks == {j \in 1..k : hist[j].nsop # "none"}
    IN  IF ks = {} THEN "none" ELSE hist[CHOOSE j \in ks : \A x \in ks : x <= j].nsop

\* the flag follows the most recent completed namespace operation
FlagFollowsLastOk == namespaceCreated = (LastOk(Len(hist)) = "create")

\* Teardown issues a delete only after a create with no completed delete since
TeardownDeletesOnlyCreated ==
    \A k \in 1..Len(hist) :
        (hist[k].call = "Teardown" /\ "delete" \in hist[k].issued) => LastOk(k - 1) = "create"

\* C20 as stated: the flag is true exactly when the most recent successfully
\* completed namespace operation was a create with matching output; Teardown
\* issues a delete only after such a create with no successful delete since;
\* the second of two consecutive Teardown calls issues no delete.
C20_FlagTracksNamespace ==
    /\ FlagFollowsLastOk
    /\ TeardownDeletesOnlyCreated
    /\ \A k \in 1..(Len(hist) - 1) :
        (hist[k].call = "Teardown" /\ hist[k + 1].call = "Teardown") =>
            "delete" \notin hist[k + 1].issued

\* C20: the flag is true exactly when the most recent successfully completed
\* namespace operation was a create with matching output; Teardown issues a
\* delete only after such a create with no successful delete since; a Teardown
\* that follows a Teardown which returned normally issues no delete, and one
\* that follows a Teardown stopped by t.Fatalf issues the delete again.
C20_FlagTracksCompleted ==
    /\ FlagFollowsLastOk
    /\ TeardownDeletesOnlyCreated
    /\ \A k \in 1..(Len(hist) - 1) :
        (hist[k].call = "Teardown" /\ hist[k + 1].call = "Teardown") =>
            ("delete" \in hist[k + 1].issued <=> ~hist[k].completed)

\* a Teardown deleted the namespace and the next Teardown issued nothing
C20_Witness ==
    \E k \in 1..(Len(hist) - 1) :
        /\ hist[k].call = "Teardown" /\ hist[k].nsop = "delete" /\ hist[k].completed
        /\ hist[k + 1].call = "Teardown" /\ hist[k + 1].issued = {}
        /\ \E j \in 1..(k - 1) : hist[j].call = "Setup" /\ hist[j].nsop = "create"

====
